---- MODULE Spec2Model ----
(***************************************************************************)
(* Model of skrl.models.torch.tabular.TabularMixin: discovery of the       *)
(* tensor attributes of a model instance, export/import of its state and   *)
(* save/load of the tensors through a file.                                *)
(*                                                                         *)
(* Attribute names are sequences of character codes, so that startswith    *)
(* and the lexicographic order of sorted() are computed, not assumed:      *)
(*   <<95,95,116>> "__t"   <<95,98>> "_b"   <<113>> "q"   <<110>> "n"      *)
(*   <<122>> "z"   <<95,95,100>> "__d"   <<109,46,119>> "m.w"              *)
(***************************************************************************)
EXTENDS Integers, Sequences, FiniteSets, TLC

VARIABLES
    cls,      \* the class of the live model instance
    device,   \* self.device, fixed by the constructor
    attrs,    \* the attributes of the instance: name -> value
    base,     \* the state held by the base Model: key -> tensor
    file,     \* the content of the file at the path, <<>> when never written
    saved,    \* history: the saver's attributes at the last save()
    last,     \* history: the last call, its argument, the state before, its outcome
    calls     \* number of method calls made so far

vars == <<cls, device, attrs, base, file, saved, last, calls>>

\* ---------------------------------------------------------------- bounds
MaxVal == 1       \* tensor elements are 0..MaxVal
MaxEntries == 2   \* a state_dict passed by a caller has at most this many entries
MaxCalls == 2     \* method calls made in one behaviour

\* ---------------------------------------------------------------- values
Underscore == 95

Devices == {"cpu", "cuda:0"}
Values == 0 .. MaxVal

RECURSIVE Numel(_)
Numel(shape) == IF shape = <<>> THEN 1 ELSE Head(shape) * Numel(Tail(shape))

\* torch.full(shape, fill, dtype=dtype, device=dev)
Tensor(shape, dtype, dev, fill) ==
    [type |-> "Tensor", shape |-> shape, dtype |-> dtype, device |-> dev,
     data |-> [i \in 1 .. Numel(shape) |-> fill]]

\* a value that is not a tensor, such as self.num_envs
IntValue == [type |-> "int", shape |-> <<>>, dtype |-> "none", device |-> "none", data |-> <<>>]

isinstance_Tensor(value) == value.type = "Tensor"

hasattr(obj, name) == name \in DOMAIN obj

\* ---------------------------------------------------------------- names
startswith(s, prefix) ==
    Len(s) >= Len(prefix) /\ SubSeq(s, 1, Len(prefix)) = prefix

\* the order of Python strings: by code point, a proper prefix first
RECURSIVE StrLess(_, _)
StrLess(s, t) ==
    IF t = <<>> THEN FALSE
    ELSE IF s = <<>> THEN TRUE
    ELSE IF Head(s) # Head(t) THEN Head(s) < Head(t)
    ELSE StrLess(Tail(s), Tail(t))

RECURSIVE sorted(_)
sorted(S) ==
    IF S = {} THEN <<>>
    ELSE LET m == CHOOSE x \in S : \A y \in S \ {x} : StrLess(x, y)
         IN <<m>> \o sorted(S \ {m})

dir(obj) == DOMAIN obj

Range(s) == {s[i] : i \in 1 .. Len(s)}

\* _get_tensor_names without the test of the attribute's type
GetNamesNoTypeTest(obj) ==
    sorted({attr \in dir(obj) : ~startswith(attr, <<Underscore, Underscore>>)})

\* TabularMixin._get_tensor_names
_get_tensor_names(obj) ==
    sorted({attr \in dir(obj) :
              ~startswith(attr, <<Underscore, Underscore>>) /\ isinstance_Tensor(obj[attr])})


\* ---------------------------------------------------------------- mappings
\* A dict is the sequence of its items in iteration order, its keys distinct.
Item(name, tensor) == [name |-> name, tensor |-> tensor]

keys(d) == {d[i].name : i \in 1 .. Len(d)}

\* d[name] = value: an existing key keeps its position, a new key goes last
DictSet(d, name, value) ==
    IF name \in keys(d)
    THEN [i \in 1 .. Len(d) |-> IF d[i].name = name THEN Item(name, value) ELSE d[i]]
    ELSE Append(d, Item(name, value))

DictGet(d, name) == (CHOOSE i \in 1 .. Len(d) : d[i].name = name)

\* {name: getattr(self, name) for name in self._get_tensor_names()}
TensorDict(obj) ==
    LET names == _get_tensor_names(obj)
    IN [i \in 1 .. Len(names) |-> Item(names[i], obj[names[i]])]

\* ---------------------------------------------------------------- classes
\* Subclasses of (TabularMixin, Model): the tensors their constructor creates
\* with torch.ones(..., device=self.device), their other attributes, and the
\* parameters of their submodules, which only the base Model knows.
TensorSpec(shape, dtype) == [type |-> "Tensor", shape |-> shape, dtype |-> dtype]
IntSpec == [type |-> "int", shape |-> <<>>, dtype |-> "none"]

Classes ==
    { [name |-> "K1",
       layout |-> (<<95, 98>> :> TensorSpec(<<2>>, "float32"))
               @@ (<<113>> :> TensorSpec(<<1, 1, 2>>, "float32"))
               @@ (<<95, 95, 116>> :> TensorSpec(<<2>>, "int64"))
               @@ (<<110>> :> IntSpec)
               @@ (<<95, 95, 100>> :> IntSpec),
       params |-> <<>>],
      [name |-> "K2",
       layout |-> (<<95, 98>> :> TensorSpec(<<2>>, "float32"))
               @@ (<<113>> :> TensorSpec(<<1, 1, 2>>, "int64"))
               @@ (<<110>> :> IntSpec)
               @@ (<<95, 95, 100>> :> IntSpec),
       params |-> (<<109, 46, 119>> :> TensorSpec(<<2>>, "float32"))] }

\* the attributes of a freshly constructed instance of class k on device dev,
\* its tensors filled with the value the constructor was given
NewAttrs(k, dev, fill) ==
    [n \in DOMAIN k.layout |->
        IF k.layout[n].type = "Tensor"
        THEN Tensor(k.layout[n].shape, k.layout[n].dtype, dev, fill)
        ELSE IntValue]

NewBase(k, dev, fill) ==
    [n \in DOMAIN k.params |-> Tensor(k.params[n].shape, k.params[n].dtype, dev, fill)]

\* ---------------------------------------------------------------- base Model
\* Model.state_dict(self, destination=d): the base adds its own keys to d
Model_state_dict(b, d) ==
    LET ks == sorted(DOMAIN b)
        add[i \in 0 .. Len(ks)] ==
            IF i = 0 THEN d ELSE DictSet(add[i - 1], ks[i], b[ks[i]])
    IN add[Len(ks)]

\* Model.load_state_dict(self, d, strict=False): every key the base knows is
\* copied into the base's own tensor (copy_ keeps its dtype and device), keys
\* it does not know are tolerated, a size mismatch is an error.
Model_load_state_dict(b, d) ==
    LET known == {n \in DOMAIN b : n \in keys(d)}
        fits(n) == d[DictGet(d, n)].tensor.shape = b[n].shape
    IN [base |-> [n \in DOMAIN b |->
                    IF n \in known /\ fits(n)
                    THEN [b[n] EXCEPT !.data = d[DictGet(d, n)].tensor.data]
                    ELSE b[n]],
        mismatched |-> {n \in known : ~fits(n)}]

\* ---------------------------------------------------------------- errors
NoError ==
    [raised |-> FALSE, exc |-> "none", text |-> "", index |-> 0,
     name |-> <<>>, shapes |-> <<>>, dtypes |-> <<>>]

\* ValueError("Tensor shape ({} vs {}) or dtype ({} vs {}) mismatch".format(...))
MismatchError(i, _tensor, tensor) ==
    [raised |-> TRUE, exc |-> "ValueError",
     text |-> "Tensor shape ({} vs {}) or dtype ({} vs {}) mismatch", index |-> i,
     name |-> <<>>,
     shapes |-> <<_tensor.shape, tensor.shape>>,
     dtypes |-> <<_tensor.dtype, tensor.dtype>>]

\* ValueError("{} is not a tensor of {}".format(name, self.__class__.__name__))
NotATensorError(i, name) ==
    [raised |-> TRUE, exc |-> "ValueError", text |-> "{} is not a tensor of {}",
     index |-> i, name |-> <<name>>, shapes |-> <<>>, dtypes |-> <<>>]

\* the size mismatch the base Model raises before the loop starts
BaseError(names) ==
    [raised |-> TRUE, exc |-> "RuntimeError", text |-> "size mismatch", index |-> 0,
     name |-> sorted(names), shapes |-> <<>>, dtypes |-> <<>>]

\* ---------------------------------------------------------------- the loop
\* the comparison without the dtypes
MatchesShapeOnly(_tensor, tensor) == _tensor.shape = tensor.shape

\* _tensor.shape == tensor.shape and _tensor.dtype == tensor.dtype
Matches(_tensor, tensor) ==
    _tensor.shape = tensor.shape /\ _tensor.dtype = tensor.dtype

\* setattr(self, name, value)
setattr(obj, name, value) == [n \in DOMAIN obj \cup {name} |-> IF n = name THEN value ELSE obj[n]]

\* the loop passing over the names that are not tensors of the instance
RECURSIVE SetTensorsSkipping(_, _, _)
SetTensorsSkipping(obj, items, i) ==
    IF i > Len(items) THEN [attrs |-> obj, error |-> NoError]
    ELSE LET name == items[i].name
             tensor == items[i].tensor
         IN IF hasattr(obj, name) /\ isinstance_Tensor(obj[name])
            THEN IF Matches(obj[name], tensor)
                 THEN SetTensorsSkipping(setattr(obj, name, tensor), items, i + 1)
                 ELSE [attrs |-> obj, error |-> MismatchError(i, obj[name], tensor)]
            ELSE SetTensorsSkipping(obj, items, i + 1)

\* the loop going on to the remaining items after the first failure, which it
\* raises at the end
RECURSIVE SetTensorsKeepGoing(_, _, _)
SetTensorsKeepGoing(obj, items, i) ==
    IF i > Len(items) THEN [attrs |-> obj, error |-> NoError]
    ELSE LET name == items[i].name
             tensor == items[i].tensor
             ok == hasattr(obj, name) /\ isinstance_Tensor(obj[name])
             rest == SetTensorsKeepGoing(
                        IF ok /\ Matches(obj[name], tensor)
                        THEN setattr(obj, name, tensor) ELSE obj, items, i + 1)
         IN IF ok /\ Matches(obj[name], tensor) THEN rest
            ELSE [attrs |-> rest.attrs,
                  error |-> IF ok THEN MismatchError(i, obj[name], tensor)
                            ELSE NotATensorError(i, name)]

\* for name, tensor in items: ... ; from item i on, stopping at the first raise
RECURSIVE SetTensors(_, _, _)
SetTensors(obj, items, i) ==
    IF i > Len(items) THEN [attrs |-> obj, error |-> NoError]
    ELSE LET name == items[i].name
             tensor == items[i].tensor
         IN IF hasattr(obj, name) /\ isinstance_Tensor(obj[name])
            THEN LET _tensor == obj[name]
                 IN IF isinstance_Tensor(_tensor)
                    THEN IF Matches(_tensor, tensor)
                         THEN SetTensors(setattr(obj, name, tensor), items, i + 1)
                         ELSE [attrs |-> obj, error |-> MismatchError(i, _tensor, tensor)]
                    ELSE SetTensors(obj, items, i + 1)
            ELSE [attrs |-> obj, error |-> NotATensorError(i, name)]

\* TabularMixin.state_dict
state_dict(obj, b) == Model_state_dict(b, TensorDict(obj))

\* TabularMixin.load_state_dict: the base import, then the loop
load_state_dict(obj, b, d) ==
    LET m == Model_load_state_dict(b, d)
    IN IF m.mismatched # {}
       THEN [attrs |-> obj, base |-> m.base, error |-> BaseError(m.mismatched)]
       ELSE LET r == SetTensors(obj, d, 1)
            IN [attrs |-> r.attrs, base |-> m.base, error |-> r.error]

\* ---------------------------------------------------------------- the file
NoFile == [exists |-> FALSE, records |-> <<>>]

\* torch.save(d, path): each tensor is written with its shape, its dtype, the
\* tag of the device it is on and a copy of its storage
torch_save(d) ==
    [exists |-> TRUE,
     records |-> [i \in 1 .. Len(d) |->
                    [name |-> d[i].name, shape |-> d[i].tensor.shape,
                     dtype |-> d[i].tensor.dtype, location |-> d[i].tensor.device,
                     storage |-> d[i].tensor.data]]]

\* torch.load(path), no map_location: each tensor is rebuilt on the device
\* its record was tagged with
torch_load(f) ==
    [i \in 1 .. Len(f.records) |->
        Item(f.records[i].name,
             [type |-> "Tensor", shape |-> f.records[i].shape, dtype |-> f.records[i].dtype,
              device |-> f.records[i].location, data |-> f.records[i].storage])]

\* TabularMixin.save(path, state_dict): what ends up at the path
save(obj, given, override) == torch_save(TensorDict(obj))

\* load() leaving the loop after the first item
LoadFirstOnly(obj, f) == SetTensors(obj, SubSeq(torch_load(f), 1, 1), 1)

\* TabularMixin.load(path)
load(obj, f) == SetTensors(obj, torch_load(f), 1)


\* ---------------------------------------------------------------- inputs
\* The state_dicts a caller passes: some of the tensors of another model, in
\* any order.  Each source is another model: its tensors, the device they are
\* on and the value they are filled with.
Sources ==
    { [device |-> "cpu", fill |-> 0,
       tensors |-> (<<95, 98>> :> TensorSpec(<<2>>, "float32"))
                @@ (<<113>> :> TensorSpec(<<1, 1, 2>>, "float32"))
                @@ (<<95, 95, 116>> :> TensorSpec(<<2>>, "int64"))],
      [device |-> "cuda:0", fill |-> MaxVal,
       tensors |-> (<<95, 98>> :> TensorSpec(<<1, 1, 3>>, "float32"))
                @@ (<<110>> :> TensorSpec(<<2>>, "float32"))
                @@ (<<109, 46, 119>> :> TensorSpec(<<1, 1, 3>>, "float32"))],
      [device |-> "cpu", fill |-> MaxVal,
       tensors |-> (<<113>> :> TensorSpec(<<1, 1, 2>>, "int64"))
                @@ (<<122>> :> TensorSpec(<<2>>, "float32"))
                @@ (<<109, 46, 119>> :> TensorSpec(<<2>>, "float32"))] }

NameSeqs(S) ==
    {ns \in UNION {[1 .. n -> S] : n \in 0 .. MaxEntries} :
        \A i, j \in 1 .. Len(ns) : i # j => ns[i] # ns[j]}

Snapshots ==
    UNION { { [i \in 1 .. Len(ns) |->
                 Item(ns[i], Tensor(src.tensors[ns[i]].shape, src.tensors[ns[i]].dtype,
                                    src.device, src.fill))] :
              ns \in NameSeqs(DOMAIN src.tensors) } :
            src \in Sources }

\* the state_dicts passed to save(): None is not one of them
Overrides == {d \in Snapshots : Len(d) <= 1}

\* ---------------------------------------------------------------- actions
Call(op, given, arg, pre, prebase, error, ret) ==
    [op |-> op, given |-> given, arg |-> arg, pre |-> pre, prebase |-> prebase,
     error |-> error, ret |-> ret]

Init ==
    /\ cls \in Classes
    /\ device \in Devices
    /\ \E fill \in Values :
          /\ attrs = NewAttrs(cls, device, fill)
          /\ base = NewBase(cls, device, fill)
    /\ file = NoFile
    /\ saved = <<>>
    /\ last = Call("__init__", FALSE, <<>>, <<>>, <<>>, NoError, <<>>)
    /\ calls = 0

\* model = K(observation_space, action_space, device=dev): a new instance
\* takes the place of the live one, on which a method was called; the file
\* stays
Construct(k, dev, fill) ==
    /\ last.op # "__init__"
    /\ cls' = k
    /\ device' = dev
    /\ attrs' = NewAttrs(k, dev, fill)
    /\ base' = NewBase(k, dev, fill)
    /\ last' = Call("__init__", FALSE, <<>>, <<>>, <<>>, NoError, <<>>)
    /\ UNCHANGED <<file, saved, calls>>

\* model._get_tensor_names()
GetTensorNames ==
    /\ calls < MaxCalls
    /\ last' = Call("_get_tensor_names", FALSE, <<>>, attrs, base, NoError,
                    _get_tensor_names(attrs))
    /\ calls' = calls + 1
    /\ UNCHANGED <<cls, device, attrs, base, file, saved>>

\* model.state_dict()
StateDict ==
    /\ calls < MaxCalls
    /\ last' = Call("state_dict", FALSE, <<>>, attrs, base, NoError, state_dict(attrs, base))
    /\ calls' = calls + 1
    /\ UNCHANGED <<cls, device, attrs, base, file, saved>>

\* model.load_state_dict(d)
LoadStateDict(op, d) ==
    /\ calls < MaxCalls
    /\ LET r == load_state_dict(attrs, base, d)
       IN /\ attrs' = r.attrs
          /\ base' = r.base
          /\ last' = Call(op, TRUE, d, attrs, base, r.error, <<>>)
    /\ calls' = calls + 1
    /\ UNCHANGED <<cls, device, file, saved>>

\* model.load_state_dict(model.state_dict())
ExportImport == LoadStateDict("state_dict;load_state_dict", state_dict(attrs, base))

\* model.save(path) and model.save(path, state_dict=d)
Save(given, d) ==
    /\ calls < MaxCalls
    /\ file' = save(attrs, given, d)
    /\ saved' = attrs
    /\ last' = Call("save", given, d, attrs, base, NoError, <<>>)
    /\ calls' = calls + 1
    /\ UNCHANGED <<cls, device, attrs, base>>

\* model.load(path), the file being there
Load ==
    /\ calls < MaxCalls
    /\ file.exists
    /\ LET r == load(attrs, file)
       IN /\ attrs' = r.attrs
          /\ last' = Call("load", FALSE, torch_load(file), attrs, base, r.error, <<>>)
    /\ calls' = calls + 1
    /\ UNCHANGED <<cls, device, base, file, saved>>

Next ==
    \/ \E k \in Classes, dev \in Devices, fill \in Values : Construct(k, dev, fill)
    \/ GetTensorNames
    \/ StateDict
    \/ \E d \in Snapshots : LoadStateDict("load_state_dict", d)
    \/ ExportImport
    \/ Save(FALSE, <<>>)
    \/ \E d \in Overrides : Save(TRUE, d)
    \/ Load

Spec == Init /\ [][Next]_vars


\* ================================================================ properties
TensorNames(obj) == {n \in DOMAIN obj : obj[n].type = "Tensor"}

Dunder(n) == startswith(n, <<Underscore, Underscore>>)

ImportOps == {"load_state_dict", "state_dict;load_state_dict"}

LoadOps == ImportOps \cup {"load"}

\* entry i of mapping d passes the validation against the attributes obj
Valid(obj, d, i) ==
    /\ d[i].name \in DOMAIN obj
    /\ obj[d[i].name].type = "Tensor"
    /\ obj[d[i].name].shape = d[i].tensor.shape
    /\ obj[d[i].name].dtype = d[i].tensor.dtype

\* the loop of the last call raised (not the base Model before it)
LoopFailed == last.op \in LoadOps /\ last.error.raised /\ last.error.index >= 1

\* C1: whatever loads were made, every tensor attribute the constructor
\* created still has the shape and the dtype it was created with.
C1_ShapeAndDtypeKept ==
    \A n \in DOMAIN cls.layout :
        cls.layout[n].type = "Tensor" =>
            /\ n \in DOMAIN attrs
            /\ attrs[n].type = "Tensor"
            /\ attrs[n].shape = cls.layout[n].shape
            /\ attrs[n].dtype = cls.layout[n].dtype

\* a second load in a row that replaced a tensor
C1_Witness ==
    /\ calls >= 2
    /\ last.op \in LoadOps
    /\ attrs # last.pre
    /\ \A v \in Values : last.pre # NewAttrs(cls, device, v)

\* C2 (as claimed): a load_state_dict that fails leaves every attribute as it
\* was before the call.
C2_FailedImportMutatesNothing ==
    (last.op = "load_state_dict" /\ last.error.raised) => attrs = last.pre

\* C3: load_state_dict succeeds exactly when every entry names a tensor
\* attribute of the same shape and dtype; then the named attributes hold the
\* incoming tensors and the others are unchanged; otherwise it raises.
C3_ImportSucceedsIffAllValid ==
    last.op \in ImportOps =>
        LET d == last.arg
            allValid == \A i \in 1 .. Len(d) : Valid(last.pre, d, i)
        IN /\ last.error.raised <=> ~allValid
           /\ DOMAIN attrs = DOMAIN last.pre
           /\ ~last.error.raised =>
                \A n \in DOMAIN attrs :
                    IF n \in keys(d) THEN attrs[n] = d[DictGet(d, n)].tensor
                    ELSE attrs[n] = last.pre[n]

\* a successful import of two entries that changed the instance
C3_Witness ==
    /\ last.op = "load_state_dict"
    /\ ~last.error.raised
    /\ Len(last.arg) = 2
    /\ \A i \in 1 .. 2 : attrs[last.arg[i].name] # last.pre[last.arg[i].name]

\* C4 (as claimed): load_state_dict(state_dict()) succeeds and changes no
\* attribute, also when the base Model contributes keys.
C4_ExportImportIsIdentity ==
    last.op = "state_dict;load_state_dict" =>
        ~last.error.raised /\ attrs = last.pre

\* the tensor attributes of a and b have the same names, shapes and dtypes
SameLayout(a, b) ==
    /\ TensorNames(a) = TensorNames(b)
    /\ \A n \in TensorNames(a) : a[n].shape = b[n].shape /\ a[n].dtype = b[n].dtype

SameValue(t, u) == t.shape = u.shape /\ t.dtype = u.dtype /\ t.data = u.data

\* a load into a freshly constructed instance laid out like the saving one
FreshLoad ==
    /\ last.op = "load"
    /\ saved # <<>>
    /\ \E v \in Values : last.pre = NewAttrs(cls, device, v)
    /\ SameLayout(saved, last.pre)

\* C5 (as claimed): after save() and load() into a fresh instance laid out
\* the same, every tensor attribute has the value the saver's had.
C5_RoundTripAllTensors ==
    FreshLoad =>
        /\ ~last.error.raised
        /\ \A n \in TensorNames(attrs) : SameValue(attrs[n], saved[n])

\* C5 (amended): the same for every tensor attribute whose name does not
\* begin with two underscores.
C5_RoundTripDiscoveredTensors ==
    FreshLoad =>
        /\ ~last.error.raised
        /\ \A n \in TensorNames(attrs) : ~Dunder(n) => SameValue(attrs[n], saved[n])

\* such a load, the saved values differing from the fresh ones
C5_Witness ==
    /\ FreshLoad
    /\ \A n \in TensorNames(saved) : saved[n].data # last.pre[n].data
    /\ attrs # last.pre

\* C6 (as claimed): save() writes the state_dict it was given, and the
\* instance's own tensors when it was given none.
C6_SaveWritesOverride ==
    last.op = "save" =>
        file = torch_save(IF last.given THEN last.arg ELSE TensorDict(last.pre))

\* the names in s are in strictly increasing order
StrictlySorted(s) == \A i, j \in 1 .. Len(s) : i < j => StrLess(s[i], s[j])

\* C7 (as claimed): _get_tensor_names returns, sorted and without duplicates,
\* exactly the names of the attributes that hold a tensor.
C7_AllTensorNames ==
    last.op = "_get_tensor_names" =>
        /\ StrictlySorted(last.ret)
        /\ Range(last.ret) = TensorNames(last.pre)

\* C7 (amended): ... exactly the names not beginning with two underscores of
\* the attributes that hold a tensor.
C7_NonDunderTensorNames ==
    last.op = "_get_tensor_names" =>
        /\ StrictlySorted(last.ret)
        /\ Range(last.ret) = {n \in TensorNames(last.pre) : ~Dunder(n)}

\* a call on an instance that has a tensor under a dunder name and two others
C7_Witness ==
    /\ last.op = "_get_tensor_names"
    /\ Len(last.ret) = 2
    /\ \E n \in TensorNames(last.pre) : Dunder(n)

\* C8 (as claimed): after a successful load() every tensor the load replaced
\* is on the device the instance was constructed with.
C8_LoadedOnInstanceDevice ==
    (last.op = "load" /\ ~last.error.raised) =>
        \A n \in keys(last.arg) : attrs[n].device = device

\* C9 (as claimed): a ValueError of load_state_dict or load names the
\* offending attribute, and for a shape or dtype mismatch it also carries
\* both shapes and both dtypes.
C9_ErrorNamesAttribute ==
    (LoopFailed /\ last.error.exc = "ValueError") =>
        LET e == last.error
            name == last.arg[e.index].name
            isTensor == name \in DOMAIN last.pre /\ last.pre[name].type = "Tensor"
        IN /\ name \in Range(e.name)
           /\ isTensor =>
                /\ e.shapes = <<last.pre[name].shape, last.arg[e.index].tensor.shape>>
                /\ e.dtypes = <<last.pre[name].dtype, last.arg[e.index].tensor.dtype>>

\* C10: a load that fails at entry k has replaced the attributes named by the
\* entries before k, all valid, and has left every other attribute, those
\* named by the entries after k among them, as it was.
C10_StopsAtFirstInvalid ==
    LoopFailed =>
        LET d == last.arg
            k == last.error.index
        IN /\ k <= Len(d)
           /\ ~Valid(last.pre, d, k)
           /\ \A i \in 1 .. k - 1 : Valid(last.pre, d, i) /\ attrs[d[i].name] = d[i].tensor
           /\ DOMAIN attrs = DOMAIN last.pre
           /\ \A n \in DOMAIN attrs :
                n \notin {d[i].name : i \in 1 .. k - 1} => attrs[n] = last.pre[n]

\* a load() from the file that failed at its second entry, the first replaced
C10_Witness ==
    /\ last.op = "load"
    /\ LoopFailed
    /\ last.error.index = 2
    /\ attrs[last.arg[1].name] # last.pre[last.arg[1].name]

====
